---- MODULE Spec2Model ----
(***************************************************************************)
(* Model of the Starscreen resume pipeline (gdsakelaris/Resume-Analyzer):  *)
(* the Celery tasks generate_job_config_task, parse_resume_task and        *)
(* score_candidate_task, the endpoints that enqueue them, and the          *)
(* weighted scoring arithmetic of score_candidate_task.                    *)
(*                                                                         *)
(* Twelve specifications share the module:                                 *)
(*   Spec       the pipeline: database rows, the broker queue, workers,    *)
(*              with at-least-once delivery (bounded redeliveries)         *)
(*   SpecOnce   the same pipeline when every message is delivered once     *)
(*   SpecCrash  SpecOnce with worker processes that can be killed          *)
(*   SpecUpload POST /candidates/upload statement by statement, with       *)
(*              requests of one tenant served side by side                 *)
(*   SpecBilling SpecUpload next to the Stripe payment webhooks            *)
(*   SpecBulk   one POST /candidates/bulk-upload-zip request, file by file *)
(*   SpecSubmit POST /jobs and POST /candidates/upload statement by        *)
(*              statement, next to the workers                             *)
(*   SpecScore  the scoring arithmetic on bounded taxonomies / grade maps  *)
(*   SpecRange  the scoring arithmetic on grades outside 0..100            *)
(*   SpecExtract the text extraction of parse_resume_task on bounded       *)
(*              PDF and DOCX documents                                     *)
(*   SpecContact the contact columns of one candidate over any number of   *)
(*              scoring runs                                               *)
(*   SpecConfig the validation of the AI's job config in                   *)
(*              generate_job_config                                        *)
(***************************************************************************)
EXTENDS Integers, Sequences, FiniteSets, TLC

VARIABLES
    jobs,        \* jobs table: id -> row (status, job_config, error_message)
    cands,       \* candidates table: id -> row (status ABSENT before the upload)
    evals,       \* evaluations table: a set of rows
    used,        \* subscription.candidates_used_this_month
    queue,       \* broker: task message -> number of copies waiting
    dups,        \* number of redeliveries the broker has produced so far
    wk,          \* worker -> the task execution it is running (or idle)
    runs,        \* history: candidate -> number of scoring runs that returned
    sT,          \* SpecScore: the job's categories
    sG,          \* SpecScore: the AI's category_scores, in key order
    sOut,        \* SpecScore: the match_score stored (in tenths), or <<>>
    req,         \* SpecUpload: API process -> the upload request it is serving
    files,       \* SpecUpload: number of resume files in the storage backend
    xExt,        \* SpecExtract: the extension of the resume file
    xDoc,        \* SpecExtract: the document, page by page
    xOut,        \* SpecExtract: what the task stored for it, or <<>>
    kC,          \* SpecContact: the contact columns of a candidate
    gIn,         \* SpecConfig: the categories of the AI's job config
    gOut,        \* SpecConfig: what generate_job_config did with it, or <<>>
    subStatus,   \* the tenant's Subscription.status
    bulk         \* the bulk_upload_resumes request: its position and locals

vars == <<jobs, cands, evals, used, queue, dups, wk, runs, sT, sG, sOut, req, files,
          xExt, xDoc, xOut, kC, gIn, gOut, subStatus, bulk>>

pipeVars == <<jobs, cands, evals, used, queue, dups, wk, runs>>
scoreVars == <<sT, sG, sOut>>
apiVars == <<req, files>>
extractVars == <<xExt, xDoc, xOut>>
contactVars == <<kC>>
configVars == <<gIn, gOut>>
billingVars == <<subStatus>>
bulkVars == <<bulk>>

----------------------------------------------------------------------------
(* Bounds of the model *)

MaxCats == 2        \* categories in a taxonomy (SpecScore)
MaxKeys == 2        \* keys in the AI's category_scores (SpecScore)
MaxDups == 1        \* redeliveries by the at-least-once broker
MaxDocPages == 7    \* pages of a resume document (SpecExtract)
MaxOtherUrls == 2   \* entries of the AI's all_other_urls (SpecContact)
MaxConfigCats == 9  \* categories of the AI's job config (SpecConfig)
MaxZipFiles == 3    \* entries of an uploaded ZIP archive (SpecBulk)

(* Program constants *)
MinImportance == 1
MaxImportance == 5

----------------------------------------------------------------------------
(* Scoring arithmetic: score_candidate_task, "PYTHON DOES THE MATH" *)

CatNames == {"Backend", "Leadership"}
AIKeys == {"Backend", "backend", "BACKEND", "Leadership", "Other"}
Importances == {MinImportance, 3, MaxImportance}
\* Grades are multiples of 20, so that every quotient that lies exactly between
\* two tenths is a multiple of 0.25, which a binary double holds exactly.
Grades == {0, 40, 80}

\* str.lower() on the names of the model
Lower(s) ==
    CASE s = "Backend" -> "backend"
      [] s = "BACKEND" -> "backend"
      [] s = "Leadership" -> "leadership"
      [] s = "Other" -> "other"
      [] OTHER -> s

\* A value of category_scores: <<g>> is {"score": g, ...}, <<>> is an entry
\* without a usable score (an empty dict, or a dict without "score").
GradeData == {<<>>} \cup {<<g>> : g \in Grades}

Category == [name : CatNames, importance : Importances]
Entry == [key : AIKeys, data : GradeData]

RECURSIVE SeqsUpTo(_, _)
SeqsUpTo(S, n) ==
    IF n = 0 THEN {<<>>}
    ELSE LET shorter == SeqsUpTo(S, n - 1)
         IN shorter \cup {Append(q, x) : q \in {r \in shorter : Len(r) = n - 1}, x \in S}

DistinctKeys(g) == \A i, j \in 1..Len(g) : i # j => g[i].key # g[j].key

Taxonomies == SeqsUpTo(Category, MaxCats)
\* a JSON object read by json.loads: insertion-ordered, keys distinct
GradeMaps == {g \in SeqsUpTo(Entry, MaxKeys) : DistinctKeys(g)}

HasKey(g, k) == \E i \in 1..Len(g) : g[i].key = k
Get(g, k) == g[CHOOSE i \in 1..Len(g) : g[i].key = k].data

\* the for-loop over ai_scores.items(): the first key equal up to case
RECURSIVE FirstCI(_, _, _)
FirstCI(g, name, i) ==
    IF i > Len(g) THEN <<>>
    ELSE IF Lower(g[i].key) = Lower(name) THEN g[i].data
    ELSE FirstCI(g, name, i + 1)

\* a lookup that forgets the case-insensitive fallback
FindGradeExactOnly(g, name) ==
    IF HasKey(g, name) THEN Get(g, name) ELSE <<>>

\* ai_cat_data for one category: exact match first, else case-insensitive
FindGrade(g, name) ==
    IF HasKey(g, name) THEN Get(g, name) ELSE FirstCI(g, name, 1)

\* score = ai_cat_data.get("score", 0), or 0 when the AI missed the category
ScoreOf(data) == IF data # <<>> THEN data[1] ELSE 0

\* a loop that leaves the categories the AI missed out of the denominator
RECURSIVE AccumulateGradedOnly(_, _, _, _, _)
AccumulateGradedOnly(cats, g, i, tw, ti) ==
    IF i > Len(cats) THEN <<tw, ti>>
    ELSE IF FindGrade(g, cats[i].name) = <<>>
         THEN AccumulateGradedOnly(cats, g, i + 1, tw, ti)
         ELSE AccumulateGradedOnly(cats, g, i + 1,
                    tw + ScoreOf(FindGrade(g, cats[i].name)) * cats[i].importance,
                    ti + cats[i].importance)

\* The loop over the job's categories: <<total_weighted_score, total_importance>>
RECURSIVE Accumulate(_, _, _, _, _)
Accumulate(cats, g, i, tw, ti) ==
    IF i > Len(cats) THEN <<tw, ti>>
    ELSE Accumulate(cats, g, i + 1,
                    tw + ScoreOf(FindGrade(g, cats[i].name)) * cats[i].importance,
                    ti + cats[i].importance)

\* round(num / den, 1) as a number of tenths; a quotient exactly between two
\* tenths goes to the even one, as Python rounds an exactly represented double
RoundTenths(num, den) ==
    LET q == (10 * num) \div den
        r == (10 * num) % den
    IN  IF 2 * r > den THEN q + 1
        ELSE IF 2 * r < den THEN q
        ELSE IF q % 2 = 0 THEN q ELSE q + 1

\* a score that takes the middle of the scale when no category counts
FinalMatchScoreMiddle(cats, g) ==
    LET t == Accumulate(cats, g, 1, 0, 0)
    IN  IF t[2] > 0 THEN RoundTenths(t[1], t[2]) ELSE 500

\* final_match_score, in tenths
FinalMatchScore(cats, g) ==
    LET t == Accumulate(cats, g, 1, 0, 0)
    IN  IF t[2] > 0 THEN RoundTenths(t[1], t[2]) ELSE 0

----------------------------------------------------------------------------
(* The pipeline: rows, messages, workers *)

JobIds == {1}
CandIds == {1, 2}
Workers == {"w1", "w2"}
MonthlyLimit == 1

JobTerminal == {"COMPLETED", "FAILED"}
CandTerminal == {"SCORED", "FAILED"}

\* file extensions of original_filename
Exts == {".pdf", ".docx", ".doc", ".txt"}
ALLOWED_EXTENSIONS == {".pdf", ".doc", ".docx"}

\* what the Config Generator can return for a job (a validated config)
Configs == {<<>>, <<[name |-> "Backend", importance |-> 5],
                    [name |-> "Leadership", importance |-> 1]>>}
\* what the Inference Client can return as category_scores while scoring
Responses == {<<[key |-> "Backend", data |-> <<80>>], [key |-> "Leadership", data |-> <<40>>]>>,
              <<[key |-> "backend", data |-> <<80>>]>>}

JobMsgs == [kind : {"job"}, id : JobIds, post : BOOLEAN]
CandMsgs == [kind : {"parse", "score"}, id : CandIds, post : {FALSE}]
LinkedInMsgs == [kind : {"linkedin"}, id : JobIds, post : {TRUE}]
Msgs == JobMsgs \cup CandMsgs \cup LinkedInMsgs

Idle == [kind |-> "idle", id |-> 0, pc |-> "idle", post |-> FALSE,
         cats |-> <<>>, resp |-> <<>>, full |-> FALSE, ovl |-> FALSE,
         att |-> 0, waits |-> <<>>]

\* .delay() / apply_async(): one more copy of the message in the broker
Enqueue(q, m) == [q EXCEPT ![m] = @ + 1]

\* the task execution of worker v works on this entity
OnJob(v, j) == wk[v].kind = "job" /\ wk[v].id = j
OnCand(v, c) == wk[v].kind \in {"parse", "score"} /\ wk[v].id = c

\* worker w moves to state new; history: every other execution on the same
\* entity has now been overlapped by a commit of w
StepCand(w, c, new) ==
    [v \in Workers |-> IF v = w THEN new
                       ELSE IF OnCand(v, c) THEN [wk[v] EXCEPT !.ovl = TRUE]
                       ELSE wk[v]]
StepJob(w, j, new) ==
    [v \in Workers |-> IF v = w THEN new
                       ELSE IF OnJob(v, j) THEN [wk[v] EXCEPT !.ovl = TRUE]
                       ELSE wk[v]]

\* A worker receives message m. At-least-once delivery: the broker may keep
\* the message for a later redelivery (a bounded number of times).
Receive(m, again) ==
    /\ queue[m] > 0
    /\ IF again
       THEN dups < MaxDups /\ dups' = dups + 1 /\ queue' = queue
       ELSE dups' = dups /\ queue' = [queue EXCEPT ![m] = @ - 1]

----------------------------------------------------------------------------
(* Submission endpoints *)

\* a creation that leaves the session without committing the row
NewJobUnsaved == [status |-> "ABSENT", job_config |-> <<>>, error_message |-> ""]

\* job_crud.create: the row that is added and committed
NewJob == [status |-> "PENDING", job_config |-> <<>>, error_message |-> ""]

\* POST /jobs: job_crud.create, then generate_job_config_task.apply_async
CreateJob(j, post) ==
    /\ jobs[j].status = "ABSENT"
    /\ jobs' = [jobs EXCEPT ![j] = NewJob]
    /\ queue' = Enqueue(queue, [kind |-> "job", id |-> j, post |-> post])
    /\ UNCHANGED <<cands, evals, used, dups, wk, runs>>
    /\ UNCHANGED <<scoreVars, apiVars, extractVars, contactVars, configVars, billingVars, bulkVars>>

\* subscription.can_upload_candidate (the subscription is active)
CanUploadCandidate == used < MonthlyLimit

\* the id the database gives to the next candidate row; no row is deleted, so
\* ids are given in order
NextCandidateId(table) ==
    CHOOSE c \in CandIds :
        /\ table[c].status = "ABSENT"
        /\ \A d \in CandIds : table[d].status = "ABSENT" => c <= d

\* POST /candidates/upload
UploadResume(c, j, ext, ctypeOk) ==
    /\ cands[c].status = "ABSENT"
    /\ c = NextCandidateId(cands)
    /\ CanUploadCandidate               \* else 402
    /\ jobs[j].status # "ABSENT"        \* else 404
    /\ (ctypeOk \/ ext \in ALLOWED_EXTENSIONS)   \* else 400
    /\ cands' = [cands EXCEPT ![c] = [status |-> "UPLOADED", ext |-> ext,
                                      resume_text |-> "", error_message |-> ""]]
    /\ used' = used + 1
    /\ queue' = Enqueue(queue, [kind |-> "parse", id |-> c, post |-> FALSE])
    /\ UNCHANGED <<jobs, evals, dups, wk, runs>>
    /\ UNCHANGED <<scoreVars, apiVars, extractVars, contactVars, configVars, billingVars, bulkVars>>

----------------------------------------------------------------------------
(* POST /candidates/upload, statement by statement: API processes serve     *)
(* requests of one tenant side by side, each with its own database session  *)

Reqs == {"r1", "r2"}

\* an API process that serves no request; resp is the HTTP status of the
\* response it sent last (0: none yet)
NoRequest(resp) ==
    [pc |-> "idle", seen |-> 0, ext |-> "", cand |-> 0, job |-> 0, post |-> FALSE,
     resp |-> resp]

\* candidate rows not yet given away
FreeIds(table) == {c \in CandIds : table[c].status = "ABSENT"}

\* requests that are admitted and have not inserted their row yet
Admitted == {r \in Reqs : req[r].pc = "create"}

\* subscription.py lines 145-148: Subscription.is_active
IsActive(status) == status \in {"ACTIVE", "TRIALING"}

\* deps.py lines 94-125: get_current_active_subscription loads the
\* subscription row into the session of the request and answers 402 when
\* it is not active
UploadLoad(r) ==
    /\ req[r].pc = "idle"
    /\ req' = IF IsActive(subStatus)
              THEN [req EXCEPT ![r] = [NoRequest(0) EXCEPT !.pc = "check", !.seen = used]]
              ELSE [req EXCEPT ![r] = NoRequest(402)]
    /\ UNCHANGED <<files, pipeVars, scoreVars, extractVars, contactVars, configVars, billingVars, bulkVars>>

\* a quota check that admits one candidate more than the plan allows
CanUploadOneMore(seen) == seen <= MonthlyLimit

\* subscription.can_upload_candidate on the row as the session loaded it
CanUploadSeen(seen) == seen < MonthlyLimit

\* candidates.py lines 85-127: the quota check, the job lookup, the file
\* type check, then storage.upload_file
UploadCheck(r, j, ext, ctypeOk) ==
    /\ req[r].pc = "check"
    /\ IF ~CanUploadSeen(req[r].seen)
       THEN req' = [req EXCEPT ![r] = NoRequest(402)] /\ files' = files
       ELSE IF jobs[j].status = "ABSENT"
       THEN req' = [req EXCEPT ![r] = NoRequest(404)] /\ files' = files
       ELSE IF ~(ctypeOk \/ ext \in ALLOWED_EXTENSIONS)
       THEN req' = [req EXCEPT ![r] = NoRequest(400)] /\ files' = files
       ELSE /\ Cardinality(FreeIds(cands)) > Cardinality(Admitted)
            /\ req' = [req EXCEPT ![r].pc = "create", ![r].ext = ext]
            /\ files' = files + 1
    /\ UNCHANGED <<pipeVars, scoreVars, extractVars, contactVars, configVars, billingVars, bulkVars>>

\* lines 141-144 (and 155-162 when the commit fails): db.add(candidate),
\* db.commit(), db.refresh(candidate)
UploadCreate(r, ok) ==
    /\ req[r].pc = "create"
    /\ IF ok
       THEN LET c == NextCandidateId(cands)
            IN  /\ cands' = [cands EXCEPT ![c] = [status |-> "UPLOADED", ext |-> req[r].ext,
                                              resume_text |-> "", error_message |-> ""]]
                /\ req' = [req EXCEPT ![r].pc = "reload", ![r].cand = c]
                /\ files' = files
       ELSE /\ req' = [req EXCEPT ![r] = NoRequest(500)]
            /\ files' = files - 1
            /\ cands' = cands
    /\ UNCHANGED <<jobs, evals, used, queue, dups, wk, runs, scoreVars, extractVars, contactVars, configVars, billingVars, bulkVars>>

\* line 148, the read of subscription.candidates_used_this_month: the
\* commit has expired the row, so the session reads it again
UploadReload(r) ==
    /\ req[r].pc = "reload"
    /\ req' = [req EXCEPT ![r].pc = "count", ![r].seen = used]
    /\ UNCHANGED <<files, pipeVars, scoreVars, extractVars, contactVars, configVars, billingVars, bulkVars>>

\* lines 148-149 (and 155-162 when the commit fails): the value read plus 1
\* is written back by db.commit()
UploadCount(r, ok) ==
    /\ req[r].pc = "count"
    /\ IF ok
       THEN /\ used' = req[r].seen + 1
            /\ req' = [req EXCEPT ![r].pc = "enqueue"]
            /\ files' = files
       ELSE /\ req' = [req EXCEPT ![r] = NoRequest(500)]
            /\ files' = files - 1
            /\ used' = used
    /\ UNCHANGED <<jobs, cands, evals, queue, dups, wk, runs, scoreVars, extractVars, contactVars, configVars, billingVars, bulkVars>>

\* lines 164-174: parse_resume_task.delay(candidate.id), then the response
UploadEnqueue(r) ==
    /\ req[r].pc = "enqueue"
    /\ queue' = Enqueue(queue, [kind |-> "parse", id |-> req[r].cand, post |-> FALSE])
    /\ req' = [req EXCEPT ![r] = [NoRequest(200) EXCEPT !.cand = req[r].cand]]
    /\ UNCHANGED <<jobs, cands, evals, used, dups, wk, runs, files, scoreVars, extractVars, contactVars, configVars, billingVars, bulkVars>>

\* lengths of the title and of the description of a POST /jobs body
TitleLens == {0, 1}
DescriptionLens == {9, 10}

\* JobCreateRequest: title min_length=1, max_length=200; description
\* min_length=10, max_length=15000
ValidJobCreateRequest(title, description) ==
    /\ title >= 1 /\ title <= 200
    /\ description >= 10 /\ description <= 15000

\* POST /jobs, statement by statement. The body is validated against
\* JobCreateRequest before create_job runs (else 422); jobs.py line 65:
\* job_crud.create commits the row
CreateJobRow(r, j, post, title, description) ==
    /\ req[r].pc = "idle"
    /\ jobs[j].status = "ABSENT"
    /\ IF ValidJobCreateRequest(title, description)
       THEN /\ jobs' = [jobs EXCEPT ![j] = NewJob]
            /\ req' = [req EXCEPT ![r] = [NoRequest(0) EXCEPT !.pc = "job_enqueue",
                                                              !.job = j, !.post = post]]
       ELSE /\ jobs' = jobs
            /\ req' = [req EXCEPT ![r] = NoRequest(422)]
    /\ UNCHANGED <<cands, evals, used, queue, dups, wk, runs, files, scoreVars, extractVars, contactVars, configVars, billingVars, bulkVars>>

\* jobs.py lines 70-87: apply_async, then the response
CreateJobEnqueue(r) ==
    /\ req[r].pc = "job_enqueue"
    /\ queue' = Enqueue(queue, [kind |-> "job", id |-> req[r].job, post |-> req[r].post])
    /\ req' = [req EXCEPT ![r] = NoRequest(201)]
    /\ UNCHANGED <<jobs, cands, evals, used, dups, wk, runs, files, scoreVars, extractVars, contactVars, configVars, billingVars, bulkVars>>

----------------------------------------------------------------------------
(* generate_job_config_task *)

\* an update that records the message but not the status
UpdateMessageOnly(row, status, msg) ==
    [row EXCEPT !.error_message = IF msg # "" THEN msg ELSE @]

\* job_crud.update_status: the error message is only written when one is
\* given, and only cleared when the status is COMPLETED
UpdateStatus(row, status, msg) ==
    [row EXCEPT !.status = status,
                !.error_message = IF msg # "" THEN msg
                                  ELSE IF status = "COMPLETED" THEN "" ELSE @]

\* an update_config that leaves the error message of an earlier run in place
UpdateConfigKeepsError(row, config) ==
    [row EXCEPT !.job_config = <<config>>, !.status = "COMPLETED"]

\* job_crud.update_config
UpdateConfig(row, config) ==
    [row EXCEPT !.job_config = <<config>>, !.status = "COMPLETED", !.error_message = ""]

\* lines 44-51: load the job, commit PROCESSING
JobStart(w, m, again) ==
    /\ wk[w].kind = "idle"
    /\ m \in JobMsgs
    /\ Receive(m, again)
    /\ jobs[m.id].status # "ABSENT"
    /\ jobs' = [jobs EXCEPT ![m.id] = UpdateStatus(@, "PROCESSING", "")]
    /\ wk' = StepJob(w, m.id, [Idle EXCEPT !.kind = "job", !.id = m.id,
                                           !.pc = "generate", !.post = m.post])
    /\ UNCHANGED <<cands, evals, used, runs>>
    /\ UNCHANGED <<scoreVars, apiVars, extractVars, contactVars, configVars, billingVars, bulkVars>>

\* generate_job_config(job_title, job_description, max_retries = 3)
max_retries == 3

\* how an attempt of generate_job_config can fail: content that is not JSON,
\* JSON that fails JobConfigSchema, a failure of the Inference Client call
GenFailures == {"badjson", "invalid", "timeout"}

\* 2 ** n
RECURSIVE Pow2(_)
Pow2(n) == IF n = 0 THEN 1 ELSE 2 * Pow2(n - 1)

\* a loop that gives up one attempt later
LastAttemptLate(attempt) == attempt = max_retries

\* ai_job_config.py lines 132, 137: this attempt was the last one
LastAttempt(attempt) == attempt = max_retries - 1

\* ai_job_config.py lines 141-144: the sleep after a failed attempt
WaitTime(attempt) == Pow2(attempt)

\* a message that names a timeout whatever the last attempt's failure was
GenerationErrorFixed(failure) == "Failed after 3 attempts: timeout"

\* ai_job_config.py lines 133, 138: the message of JobConfigGenerationError
GenerationError(failure) ==
    IF failure = "badjson" THEN "Invalid JSON after 3 attempts: badjson"
    ELSE IF failure = "invalid" THEN "Failed after 3 attempts: invalid"
    ELSE "Failed after 3 attempts: timeout"

\* ai_job_config.py lines 104-144: an attempt that fails and is not the last
\* one: sleep, then try again
JobRetry(w, failure) ==
    /\ wk[w].kind = "job" /\ wk[w].pc = "generate"
    /\ ~LastAttempt(wk[w].att)
    /\ wk' = [wk EXCEPT ![w].att = @ + 1,
                        ![w].waits = Append(@, WaitTime(wk[w].att))]
    /\ UNCHANGED <<jobs, cands, evals, used, queue, dups, runs>>
    /\ UNCHANGED <<scoreVars, apiVars, extractVars, contactVars, configVars, billingVars, bulkVars>>

\* a task that sends the LinkedIn task whatever the flag says
PublishAlways(post) == TRUE

\* job_tasks.py line 66: if post_to_linkedin and tenant_id (create_job, the
\* only sender of the task, always puts the tenant id in the payload)
PublishRequested(post) == post

\* ai_job_config.py lines 104-128 and job_tasks.py lines 55-63: an attempt
\* returns a validated config; update_config commits it. Without the
\* LinkedIn flag the task returns.
JobSucceed(w, cfg) ==
    /\ wk[w].kind = "job" /\ wk[w].pc = "generate"
    /\ LET j == wk[w].id
       IN  /\ jobs' = [jobs EXCEPT ![j] = UpdateConfig(@, [job_id |-> j, categories |-> cfg])]
           /\ wk' = StepJob(w, j, IF PublishRequested(wk[w].post)
                                   THEN [wk[w] EXCEPT !.pc = "publish"]
                                   ELSE Idle)
    /\ UNCHANGED <<cands, evals, used, queue, dups, runs>>
    /\ UNCHANGED <<scoreVars, apiVars, extractVars, contactVars, configVars, billingVars, bulkVars>>

\* job_tasks.py lines 67-71: post_job_to_linkedin.delay(job_id, tenant_id),
\* then the task returns
JobPublish(w) ==
    /\ wk[w].kind = "job" /\ wk[w].pc = "publish"
    /\ queue' = Enqueue(queue, [kind |-> "linkedin", id |-> wk[w].id, post |-> TRUE])
    /\ wk' = [wk EXCEPT ![w] = Idle]
    /\ UNCHANGED <<jobs, cands, evals, used, dups, runs>>
    /\ UNCHANGED <<scoreVars, apiVars, extractVars, contactVars, configVars, billingVars, bulkVars>>

\* ai_job_config.py lines 130-138 and job_tasks.py lines 73-76: the last
\* attempt fails, generate_job_config raises JobConfigGenerationError
JobFail(w, failure) ==
    /\ wk[w].kind = "job" /\ wk[w].pc = "generate"
    /\ LastAttempt(wk[w].att)
    /\ LET j == wk[w].id
       IN  /\ jobs' = [jobs EXCEPT ![j] = UpdateStatus(@, "FAILED", GenerationError(failure))]
           /\ wk' = StepJob(w, j, Idle)
    /\ UNCHANGED <<cands, evals, used, queue, dups, runs>>
    /\ UNCHANGED <<scoreVars, apiVars, extractVars, contactVars, configVars, billingVars, bulkVars>>

\* job_tasks.py lines 78-81: any other exception while the config is
\* generated (SoftTimeLimitExceeded at 240 s among them)
JobUnexpected(w) ==
    /\ wk[w].kind = "job" /\ wk[w].pc = "generate"
    /\ LET j == wk[w].id
       IN  /\ jobs' = [jobs EXCEPT ![j] = UpdateStatus(@, "FAILED", "Unexpected error")]
           /\ wk' = StepJob(w, j, Idle)
    /\ UNCHANGED <<cands, evals, used, queue, dups, runs>>
    /\ UNCHANGED <<scoreVars, apiVars, extractVars, contactVars, configVars, billingVars, bulkVars>>

----------------------------------------------------------------------------
(* parse_resume_task *)

\* what the stored file turns out to be when the worker reads it
Files == {"missing", "text", "blank", "corrupt"}

\* an extraction that reports every failure with the same message
ExtractOneError(ext, file) ==
    IF file = "text" /\ ext \in {".pdf", ".docx"}
    THEN [text |-> "resume text", error |-> ""]
    ELSE [text |-> "", error |-> "Unsupported file format"]

\* an extraction that accepts a document without text
ExtractAcceptsBlank(ext, file) ==
    IF file \in {"text", "blank"} /\ ext \in {".pdf", ".docx"}
    THEN [text |-> IF file = "text" THEN "resume text" ELSE "", error |-> ""]
    ELSE [text |-> "", error |-> "Unexpected error"]

\* lines 77-145 and the except clauses: the extracted text, or the error
Extract(ext, file) ==
    IF file = "missing" THEN [text |-> "", error |-> "File not found"]
    ELSE IF ext \in {".pdf", ".docx"}
         THEN IF file = "corrupt" THEN [text |-> "", error |-> "Unexpected error"]
              ELSE IF file = "blank" THEN [text |-> "", error |-> "No text could be extracted"]
              ELSE [text |-> "resume text", error |-> ""]
    ELSE IF ext = ".doc" THEN [text |-> "", error |-> "Legacy .doc format is not supported"]
    ELSE [text |-> "", error |-> "Unsupported file format"]

\* lines 59-69: load the candidate, commit PROCESSING
ParseStart(w, m, again) ==
    /\ wk[w].kind = "idle"
    /\ m \in CandMsgs /\ m.kind = "parse"
    /\ Receive(m, again)
    /\ cands[m.id].status # "ABSENT"
    /\ cands' = [cands EXCEPT ![m.id].status = "PROCESSING"]
    /\ wk' = StepCand(w, m.id, [Idle EXCEPT !.kind = "parse", !.id = m.id, !.pc = "extract"])
    /\ UNCHANGED <<jobs, evals, used, runs>>
    /\ UNCHANGED <<scoreVars, apiVars, extractVars, contactVars, configVars, billingVars, bulkVars>>

\* a chaining that also sends the scoring task a second time
ChainTwice(q, c) ==
    Enqueue(Enqueue(q, [kind |-> "score", id |-> c, post |-> FALSE]),
            [kind |-> "score", id |-> c, post |-> FALSE])

\* the messages parse_resume_task sends after committing PARSED (line 160)
ChainAfterParse(q, c) == Enqueue(q, [kind |-> "score", id |-> c, post |-> FALSE])

\* lines 71-198: extraction done; commit PARSED and chain, or commit FAILED
ParseFinish(w, file) ==
    /\ wk[w].kind = "parse" /\ wk[w].pc = "extract"
    /\ LET c == wk[w].id
           x == Extract(cands[c].ext, file)
       IN  /\ IF x.error = ""
              THEN /\ cands' = [cands EXCEPT ![c].resume_text = x.text,
                                             ![c].status = "PARSED",
                                             ![c].error_message = ""]
                   /\ queue' = ChainAfterParse(queue, c)
              ELSE /\ cands' = [cands EXCEPT ![c].status = "FAILED",
                                             ![c].error_message = x.error]
                   /\ queue' = queue
           /\ wk' = StepCand(w, c, Idle)
    /\ UNCHANGED <<jobs, evals, used, dups, runs>>
    /\ UNCHANGED <<scoreVars, apiVars, extractVars, contactVars, configVars, billingVars, bulkVars>>

----------------------------------------------------------------------------
(* score_candidate_task *)

JobOf(c) == 1       \* candidate.job_id

\* lines 77-78: job_config.get("categories", []) of a possibly null config
CategoriesOf(row) == IF row.job_config = <<>> THEN <<>> ELSE row.job_config[1].categories

\* the evaluation rows of one candidate
EvalsOf(evs, c) == {e \in evs : e.candidate_id = c}

\* lines 280-288: the row built from the AI result and the computed score
NewEvaluation(c, cats, g) ==
    [candidate_id |-> c, match_score |-> FinalMatchScore(cats, g), category_scores |-> g]

\* a re-scoring that keeps the earlier evaluation
KeepExisting(evs, c) == evs

\* lines 273-277: an existing evaluation of the candidate is deleted
DeleteExisting(evs, c) == evs \ EvalsOf(evs, c)

\* evaluation.py line 33: candidate_id is unique
UniqueViolation(evs, row) == EvalsOf(evs, row.candidate_id) # {}

\* lines 63-78: load the candidate and the job, read the categories.
\* Nothing is written: the status stays what it was.
ScoreStart(w, m, again) ==
    /\ wk[w].kind = "idle"
    /\ m \in CandMsgs /\ m.kind = "score"
    /\ Receive(m, again)
    /\ cands[m.id].status # "ABSENT"
    /\ wk' = [wk EXCEPT ![w] = [Idle EXCEPT !.kind = "score", !.id = m.id, !.pc = "ai_call",
                                            !.cats = CategoriesOf(jobs[JobOf(m.id)])]]
    /\ UNCHANGED <<jobs, cands, evals, used, runs>>
    /\ UNCHANGED <<scoreVars, apiVars, extractVars, contactVars, configVars, billingVars, bulkVars>>

\* what can go wrong in a scoring run: the Inference Client is unreachable or
\* times out (line 157), its content is not JSON (line 169), the JSON lacks
\* summary, pros or cons (lines 283-285)
ScoreFailures == {"timeout", "badjson", "keyerror"}

\* line 307: f"Scoring failed: {str(e)}"
ScoreError(failure) ==
    CASE failure = "timeout" -> "Scoring failed: Request timed out"
      [] failure = "badjson" -> "Scoring failed: Expecting value"
      [] OTHER -> "Scoring failed: 'summary'"

\* lines 157-169, 303-309: the Inference Client call raises, or its content
\* is not JSON: the handler commits FAILED and the task re-raises. The call
\* is made once; the task has no retry.
ScoreCallFail(w, failure) ==
    /\ wk[w].kind = "score" /\ wk[w].pc = "ai_call"
    /\ failure \in {"timeout", "badjson"}
    /\ LET c == wk[w].id
       IN  /\ cands' = [cands EXCEPT ![c].status = "FAILED",
                                     ![c].error_message = ScoreError(failure)]
           /\ wk' = StepCand(w, c, Idle)
    /\ UNCHANGED <<jobs, evals, used, queue, dups, runs>>
    /\ UNCHANGED <<scoreVars, apiVars, extractVars, contactVars, configVars, billingVars, bulkVars>>

\* lines 157-277: the call returns JSON with category_scores g (full: it also
\* holds summary, pros and cons); an existing evaluation is deleted and the
\* deletion committed
ScoreCall(w, g, full) ==
    /\ wk[w].kind = "score" /\ wk[w].pc = "ai_call"
    /\ LET c == wk[w].id
           new == [wk[w] EXCEPT !.pc = "insert", !.resp = g, !.full = full]
       IN  IF EvalsOf(evals, c) # {}
           THEN /\ evals' = DeleteExisting(evals, c)
                /\ wk' = StepCand(w, c, new)
           ELSE /\ evals' = evals
                /\ wk' = [wk EXCEPT ![w] = new]
    /\ UNCHANGED <<jobs, cands, used, queue, dups, runs>>
    /\ UNCHANGED <<scoreVars, apiVars, extractVars, contactVars, configVars, billingVars, bulkVars>>

\* lines 280-309: build the evaluation, add it, set SCORED, commit
ScoreInsert(w) ==
    /\ wk[w].kind = "score" /\ wk[w].pc = "insert"
    /\ LET c == wk[w].id
           row == NewEvaluation(c, wk[w].cats, wk[w].resp)
       IN  IF ~wk[w].full
           THEN \* KeyError on summary / pros / cons: the handler commits FAILED
                /\ cands' = [cands EXCEPT ![c].status = "FAILED",
                                          ![c].error_message = ScoreError("keyerror")]
                /\ wk' = StepCand(w, c, Idle)
                /\ UNCHANGED <<evals, runs>>
           ELSE IF UniqueViolation(evals, row)
           THEN \* IntegrityError: the commit is rolled back, and the handler's
                \* own commit raises on the rolled-back session: nothing is written
                /\ wk' = [wk EXCEPT ![w] = Idle]
                /\ UNCHANGED <<cands, evals, runs>>
           ELSE /\ evals' = evals \cup {row}
                /\ cands' = [cands EXCEPT ![c].status = "SCORED", ![c].error_message = ""]
                /\ runs' = [runs EXCEPT ![c] = @ + 1]
                /\ wk' = StepCand(w, c, Idle)
    /\ UNCHANGED <<jobs, used, queue, dups>>
    /\ UNCHANGED <<scoreVars, apiVars, extractVars, contactVars, configVars, billingVars, bulkVars>>

\* The entries of an uploaded ZIP archive: a resume (.pdf, .doc, .docx) or
\* anything the loop skips (folders, metadata, other extensions)
ZipEntries == {"resume", "other"}
Zips == SeqsUpTo(ZipEntries, MaxZipFiles)

\* no bulk request yet; zip holds the entries the loop has not reached
NoBulk ==
    [pc |-> "idle", zip |-> <<>>, processed_count |-> 0, skipped_count |-> 0,
     limit_reached |-> FALSE, resp |-> 0]

\* candidates.py lines 176-264: the active subscription, the quota check,
\* the job lookup, the file name check; the archive is saved
BulkStart(j, zip, isZip) ==
    /\ bulk.pc = "idle"
    /\ IF ~(IsActive(subStatus) /\ CanUploadSeen(used))
       THEN bulk' = [NoBulk EXCEPT !.pc = "done", !.resp = 402]
       ELSE IF jobs[j].status = "ABSENT"
       THEN bulk' = [NoBulk EXCEPT !.pc = "done", !.resp = 404]
       ELSE IF ~isZip
       THEN bulk' = [NoBulk EXCEPT !.pc = "done", !.resp = 400]
       ELSE bulk' = [NoBulk EXCEPT !.pc = "loop", !.zip = zip]
    /\ UNCHANGED <<pipeVars, scoreVars, apiVars, extractVars, contactVars, configVars, billingVars>>

\* lines 275-332, one pass of the loop: the limit check, the skip of a
\* non-resume entry, then storage.upload_file, the commit of the row, the
\* commit of the counter, .delay and processed_count += 1; an exception
\* anywhere in the pass is logged and the entry counted as skipped. A
\* failed commit rolls the session back, so the next pass reads the
\* counter the database holds.
BulkFile(stored, rowOk, countOk) ==
    /\ bulk.pc = "loop"
    /\ bulk.zip # <<>>
    /\ LET skip == [bulk EXCEPT !.zip = Tail(@), !.skipped_count = @ + 1]
       IN
       IF ~(IsActive(subStatus) /\ CanUploadSeen(used))
       THEN /\ bulk' = [bulk EXCEPT !.pc = "done", !.limit_reached = TRUE, !.resp = 200]
            /\ UNCHANGED <<cands, used, queue, files>>
       ELSE IF Head(bulk.zip) = "other" \/ ~stored
       THEN /\ bulk' = skip
            /\ UNCHANGED <<cands, used, queue, files>>
       ELSE IF ~rowOk
       THEN /\ bulk' = skip
            /\ files' = files + 1
            /\ UNCHANGED <<cands, used, queue>>
       ELSE /\ FreeIds(cands) # {}
            /\ LET c == NextCandidateId(cands)
               IN  /\ cands' = [cands EXCEPT ![c] = [status |-> "UPLOADED", ext |-> ".pdf",
                                                 resume_text |-> "", error_message |-> ""]]
                   /\ files' = files + 1
                   /\ IF countOk
                      THEN /\ used' = used + 1
                           /\ queue' = Enqueue(queue, [kind |-> "parse", id |-> c, post |-> FALSE])
                           /\ bulk' = [bulk EXCEPT !.zip = Tail(@), !.processed_count = @ + 1]
                      ELSE /\ bulk' = skip
                           /\ UNCHANGED <<used, queue>>
    /\ UNCHANGED <<jobs, evals, dups, wk, runs, req>>
    /\ UNCHANGED <<scoreVars, extractVars, contactVars, configVars, billingVars>>

\* lines 334-357: the archive is exhausted; the summary is returned
BulkEnd ==
    /\ bulk.pc = "loop"
    /\ bulk.zip = <<>>
    /\ bulk' = [bulk EXCEPT !.pc = "done", !.resp = 200]
    /\ UNCHANGED <<pipeVars, scoreVars, apiVars, extractVars, contactVars, configVars, billingVars>>

----------------------------------------------------------------------------
(* The pipeline specification *)

InitPipe ==
    /\ jobs = [j \in JobIds |-> [status |-> "ABSENT", job_config |-> <<>>, error_message |-> ""]]
    /\ cands = [c \in CandIds |-> [status |-> "ABSENT", ext |-> "", resume_text |-> "",
                               error_message |-> ""]]
    /\ evals = {}
    /\ used = 0
    /\ queue = [m \in Msgs |-> 0]
    /\ dups = 0
    /\ wk = [w \in Workers |-> Idle]
    /\ runs = [c \in CandIds |-> 0]
    /\ req = [r \in Reqs |-> NoRequest(0)]
    /\ files = 0
    /\ subStatus = "ACTIVE"
    /\ bulk = NoBulk

\* The contact columns as the upload leaves them ("" and <<>>: null).
\* first_name stands for last_name, phone and location, which the task
\* treats alike; linkedin_url for github_url and portfolio_url.
EmptyContact == [first_name |-> "", email |-> "", linkedin_url |-> "", other_urls |-> <<>>]

\* no document is being looked at, no contact column is set
NoDocument ==
    /\ xExt = "" /\ xDoc = <<>> /\ xOut = <<>>
    /\ kC = EmptyContact
    /\ gIn = <<>> /\ gOut = <<>>

Init ==
    /\ InitPipe
    /\ NoDocument
    /\ sT = <<>>
    /\ sG = <<>>
    /\ sOut = <<>>

Next ==
    \/ \E j \in JobIds, post \in BOOLEAN : CreateJob(j, post)
    \/ \E c \in CandIds, j \in JobIds, ext \in Exts, ok \in BOOLEAN : UploadResume(c, j, ext, ok)
    \/ \E w \in Workers, m \in Msgs, again \in BOOLEAN : JobStart(w, m, again)
    \/ \E w \in Workers, f \in GenFailures : JobRetry(w, f)
    \/ \E w \in Workers, cfg \in Configs : JobSucceed(w, cfg)
    \/ \E w \in Workers : JobPublish(w)
    \/ \E w \in Workers, f \in GenFailures : JobFail(w, f)
    \/ \E w \in Workers : JobUnexpected(w)
    \/ \E w \in Workers, m \in Msgs, again \in BOOLEAN : ParseStart(w, m, again)
    \/ \E w \in Workers, file \in Files : ParseFinish(w, file)
    \/ \E w \in Workers, m \in Msgs, again \in BOOLEAN : ScoreStart(w, m, again)
    \/ \E w \in Workers, f \in {"timeout", "badjson"} : ScoreCallFail(w, f)
    \/ \E w \in Workers, g \in Responses, full \in BOOLEAN : ScoreCall(w, g, full)
    \/ \E w \in Workers : ScoreInsert(w)

Spec == Init /\ [][Next]_vars

\* The pipeline when the broker delivers every message exactly once
NextOnce ==
    \/ \E j \in JobIds, post \in BOOLEAN : CreateJob(j, post)
    \/ \E c \in CandIds, j \in JobIds, ext \in Exts, ok \in BOOLEAN : UploadResume(c, j, ext, ok)
    \/ \E w \in Workers, m \in Msgs : JobStart(w, m, FALSE)
    \/ \E w \in Workers, f \in GenFailures : JobRetry(w, f)
    \/ \E w \in Workers, cfg \in Configs : JobSucceed(w, cfg)
    \/ \E w \in Workers : JobPublish(w)
    \/ \E w \in Workers, f \in GenFailures : JobFail(w, f)
    \/ \E w \in Workers : JobUnexpected(w)
    \/ \E w \in Workers, m \in Msgs : ParseStart(w, m, FALSE)
    \/ \E w \in Workers, file \in Files : ParseFinish(w, file)
    \/ \E w \in Workers, m \in Msgs : ScoreStart(w, m, FALSE)
    \/ \E w \in Workers, f \in {"timeout", "badjson"} : ScoreCallFail(w, f)
    \/ \E w \in Workers, g \in Responses, full \in BOOLEAN : ScoreCall(w, g, full)
    \/ \E w \in Workers : ScoreInsert(w)

SpecOnce == Init /\ [][NextOnce]_vars

\* celery_app.conf sets no task_acks_late: a message is acknowledged when a
\* worker receives it, and is not delivered again when the worker process
\* is killed at the hard time limit (task_time_limit = 300) or crashes. No
\* handler of the task runs; the process is replaced by a fresh one.
Kill(w) ==
    /\ wk[w].kind # "idle"
    /\ wk' = [wk EXCEPT ![w] = Idle]
    /\ UNCHANGED <<jobs, cands, evals, used, queue, dups, runs>>
    /\ UNCHANGED <<scoreVars, apiVars, extractVars, contactVars, configVars, billingVars, bulkVars>>

\* The pipeline with workers that can be killed in the middle of a task
NextCrash ==
    \/ NextOnce
    \/ \E w \in Workers : Kill(w)

SpecCrash == Init /\ [][NextCrash]_vars

\* Uploads of one tenant, served side by side; no worker runs
NextUpload ==
    \/ \E j \in JobIds, post \in BOOLEAN : CreateJob(j, post)
    \/ \E r \in Reqs : UploadLoad(r)
    \/ \E r \in Reqs, j \in JobIds, ext \in Exts, ok \in BOOLEAN : UploadCheck(r, j, ext, ok)
    \/ \E r \in Reqs, ok \in BOOLEAN : UploadCreate(r, ok)
    \/ \E r \in Reqs : UploadReload(r)
    \/ \E r \in Reqs, ok \in BOOLEAN : UploadCount(r, ok)
    \/ \E r \in Reqs : UploadEnqueue(r)

SpecUpload == Init /\ [][NextUpload]_vars

\* The subscription an invoice names: none, one that no row carries, the
\* tenant's
TenantSubscription == "sub_tenant"
Invoices == {"", "sub_unknown", TenantSubscription}

\* a renewal that leaves the month's usage as it was
RenewedUsageKept(n) == n

\* stripe_webhooks.py line 219: candidates_used_this_month = 0
RenewedUsage(n) == 0

\* stripe_webhooks.py lines 201-222: handle_payment_succeeded
PaymentSucceeded(inv) ==
    /\ IF inv = "" \/ inv # TenantSubscription
       THEN UNCHANGED <<used, subStatus>>
       ELSE /\ subStatus' = "ACTIVE"
            /\ used' = RenewedUsage(used)
    /\ UNCHANGED <<jobs, cands, evals, queue, dups, wk, runs>>
    /\ UNCHANGED <<scoreVars, apiVars, extractVars, contactVars, configVars, bulkVars>>

\* stripe_webhooks.py lines 225-243: handle_payment_failed
PaymentFailed(inv) ==
    /\ IF inv = "" \/ inv # TenantSubscription
       THEN UNCHANGED subStatus
       ELSE subStatus' = "PAST_DUE"
    /\ UNCHANGED <<pipeVars, scoreVars, apiVars, extractVars, contactVars, configVars, bulkVars>>

\* The uploads of two API processes next to the billing webhooks
NextBilling ==
    \/ NextUpload
    \/ \E inv \in Invoices : PaymentSucceeded(inv)
    \/ \E inv \in Invoices : PaymentFailed(inv)

SpecBilling == Init /\ [][NextBilling]_vars

\* One bulk request of a tenant, with no other upload beside it
NextBulk ==
    \/ \E j \in JobIds, post \in BOOLEAN : CreateJob(j, post)
    \/ \E j \in JobIds, zip \in Zips, isZip \in BOOLEAN : BulkStart(j, zip, isZip)
    \/ \E stored, rowOk, countOk \in BOOLEAN : BulkFile(stored, rowOk, countOk)
    \/ BulkEnd

SpecBulk == Init /\ [][NextBulk]_vars

\* The submissions statement by statement next to the workers: one API
\* process, every message delivered once
SubmitReqs == {"r1"}

NextSubmit ==
    \/ \E r \in SubmitReqs, j \in JobIds, post \in BOOLEAN, t \in TitleLens, d \in DescriptionLens :
          CreateJobRow(r, j, post, t, d)
    \/ \E r \in SubmitReqs : CreateJobEnqueue(r)
    \/ \E r \in SubmitReqs : UploadLoad(r)
    \/ \E r \in SubmitReqs, j \in JobIds, ext \in Exts, ok \in BOOLEAN : UploadCheck(r, j, ext, ok)
    \/ \E r \in SubmitReqs, ok \in BOOLEAN : UploadCreate(r, ok)
    \/ \E r \in SubmitReqs : UploadReload(r)
    \/ \E r \in SubmitReqs, ok \in BOOLEAN : UploadCount(r, ok)
    \/ \E r \in SubmitReqs : UploadEnqueue(r)
    \/ \E w \in Workers, m \in Msgs : JobStart(w, m, FALSE)
    \/ \E w \in Workers, f \in GenFailures : JobRetry(w, f)
    \/ \E w \in Workers, cfg \in Configs : JobSucceed(w, cfg)
    \/ \E w \in Workers : JobPublish(w)
    \/ \E w \in Workers, f \in GenFailures : JobFail(w, f)
    \/ \E w \in Workers : JobUnexpected(w)
    \/ \E w \in Workers, m \in Msgs : ParseStart(w, m, FALSE)
    \/ \E w \in Workers, file \in Files : ParseFinish(w, file)
    \/ \E w \in Workers, m \in Msgs : ScoreStart(w, m, FALSE)
    \/ \E w \in Workers, f \in {"timeout", "badjson"} : ScoreCallFail(w, f)
    \/ \E w \in Workers, g \in Responses, full \in BOOLEAN : ScoreCall(w, g, full)
    \/ \E w \in Workers : ScoreInsert(w)

SpecSubmit == Init /\ [][NextSubmit]_vars

----------------------------------------------------------------------------
(* SpecScore: the arithmetic applied to every bounded taxonomy and grade map *)

InitScore ==
    /\ InitPipe
    /\ NoDocument
    /\ sT \in Taxonomies
    /\ sG \in GradeMaps
    /\ sOut = <<>>

\* lines 222-288: the score is computed and stored as Evaluation.match_score
StoreMatchScore ==
    /\ sOut = <<>>
    /\ sOut' = <<FinalMatchScore(sT, sG)>>
    /\ UNCHANGED <<sT, sG>>
    /\ UNCHANGED pipeVars
    /\ UNCHANGED <<apiVars, extractVars, contactVars, configVars, billingVars, bulkVars>>

NextScore == StoreMatchScore

SpecScore == InitScore /\ [][NextScore]_vars

\* The same arithmetic on grades the prompt does not ask for: the score of
\* ai_cat_data.get("score", 0) is used as the AI returned it
WideGrades == {-20, 0, 100, 120}
WideEntry == [key : CatNames, data : {<<g>> : g \in WideGrades}]
WideGradeMaps == {g \in SeqsUpTo(WideEntry, MaxKeys) : DistinctKeys(g)}

InitRange ==
    /\ InitPipe
    /\ NoDocument
    /\ sT \in Taxonomies
    /\ sG \in WideGradeMaps
    /\ sOut = <<>>

SpecRange == InitRange /\ [][NextScore]_vars

----------------------------------------------------------------------------
(* parse_resume_task: the text taken from a document *)

MAX_PAGES == 6
MAX_CHARS == 25000

Min(a, b) == IF a < b THEN a ELSE b

\* A page: the length of its text and whether the text holds anything but
\* white space. No text, a line of blanks, a short line, a dense page.
PageKinds == {[chars |-> 0, ink |-> FALSE], [chars |-> 10, ink |-> FALSE],
              [chars |-> 10, ink |-> TRUE], [chars |-> 12500, ink |-> TRUE]}
Documents == SeqsUpTo(PageKinds, MaxDocPages)

\* a page limit that lets every page through
PagesToParseAll(pages) == pages

\* line 112: pdf.pages[:MAX_PAGES]
PagesToParse(pages) == SubSeq(pages, 1, Min(Len(pages), MAX_PAGES))

\* no text taken yet
NoText == [chars |-> 0, last |-> 0, ink |-> FALSE]

\* lines 114-122: the loop over the pages of a PDF. acc.chars is
\* len(extracted_text), acc.last the last page whose text is in it.
RECURSIVE PdfText(_, _, _)
PdfText(pages, i, acc) ==
    IF i > Len(pages) THEN acc
    ELSE IF pages[i].chars = 0 THEN PdfText(pages, i + 1, acc)
    ELSE LET longer == acc.chars + pages[i].chars + 1
             room == acc.chars < MAX_CHARS
             kept == [chars |-> Min(longer, MAX_CHARS),
                      last |-> IF room THEN i ELSE acc.last,
                      ink |-> acc.ink \/ (room /\ pages[i].ink)]
         IN  IF longer > MAX_CHARS THEN kept ELSE PdfText(pages, i + 1, kept)

\* lines 126-129: docx2txt.process returns the text of the whole document,
\* of which the first MAX_CHARS characters are kept
RECURSIVE DocxText(_, _, _, _)
DocxText(pages, i, full, acc) ==
    IF i > Len(pages) THEN [acc EXCEPT !.chars = Min(full, MAX_CHARS)]
    ELSE LET room == full < MAX_CHARS /\ pages[i].chars > 0
         IN  DocxText(pages, i + 1, full + pages[i].chars,
                      [acc EXCEPT !.last = IF room THEN i ELSE @,
                                  !.ink = @ \/ (room /\ pages[i].ink)])

\* extracted_text for a readable document
ExtractedText(ext, pages) ==
    IF ext = ".pdf" THEN PdfText(PagesToParse(pages), 1, NoText)
    ELSE DocxText(pages, 1, 0, NoText)

InitExtract ==
    /\ InitPipe
    /\ sT = <<>> /\ sG = <<>> /\ sOut = <<>>
    /\ xExt \in {".pdf", ".docx"}
    /\ xDoc \in Documents
    /\ xOut = <<>>
    /\ kC = EmptyContact
    /\ gIn = <<>> /\ gOut = <<>>

\* lines 103-151, 186-191: the text is extracted; blank text is a ValueError
\* and the candidate FAILED, else resume_text and PARSED are committed
ExtractDocument ==
    /\ xOut = <<>>
    /\ LET t == ExtractedText(xExt, xDoc)
           x == Extract(xExt, IF t.ink THEN "text" ELSE "blank")
       IN  xOut' = <<[status |-> IF x.error = "" THEN "PARSED" ELSE "FAILED",
                      chars |-> IF x.error = "" THEN t.chars ELSE 0,
                      last |-> IF x.error = "" THEN t.last ELSE 0,
                      error_message |-> x.error]>>
    /\ UNCHANGED <<xExt, xDoc>>
    /\ UNCHANGED <<pipeVars, scoreVars, apiVars, contactVars, configVars, billingVars, bulkVars>>

NextExtract == ExtractDocument

SpecExtract == InitExtract /\ [][NextExtract]_vars

----------------------------------------------------------------------------
(* score_candidate_task: contact info and URLs *)

Names == {"Ann", "Bob"}
Emails == {"ann@example.com"}
Urls == {"u1", "u2", "u3"}

\* ai_result.get("extracted_contact_info", {}): <<>> is an absent or empty
\* object, a missing or null entry is ""
ContactInfos ==
    {<<>>} \cup [first_name : Names \cup {""}, email : Emails \cup {""},
                 linkedin_url : Urls \cup {""},
                 all_other_urls : SeqsUpTo(Urls, MaxOtherUrls)]

\* line 213: candidate.other_urls = final_others if final_others else None
AssignOthers(old, final) == final

\* lines 207-211: the urls not assigned to a column, without duplicates
RECURSIVE FinalOthers(_, _, _, _)
FinalOthers(urls, i, assigned, acc) ==
    IF i > Len(urls) THEN acc
    ELSE IF urls[i] # "" /\ urls[i] \notin assigned /\ \A k \in 1..Len(acc) : acc[k] # urls[i]
         THEN FinalOthers(urls, i + 1, assigned, Append(acc, urls[i]))
         ELSE FinalOthers(urls, i + 1, assigned, acc)

\* lines 178-201: a column is set if the AI found a value and it is not set
SetIfEmpty(old, found) == IF found # "" /\ old = "" THEN found ELSE old

\* lines 175-216: the contact columns after a scoring run
UpdateContactInfo(row, info) ==
    IF info = <<>> THEN row
    ELSE LET linkedin == SetIfEmpty(row.linkedin_url, info.linkedin_url)
         IN  [first_name |-> SetIfEmpty(row.first_name, info.first_name),
              email |-> SetIfEmpty(row.email, info.email),
              linkedin_url |-> linkedin,
              other_urls |-> AssignOthers(row.other_urls,
                                 FinalOthers(info.all_other_urls, 1, {linkedin}, <<>>))]

InitContact ==
    /\ InitPipe
    /\ sT = <<>> /\ sG = <<>> /\ sOut = <<>>
    /\ NoDocument

\* a scoring run whose AI result holds the contact info: the columns are
\* written with the next commit of the run
ScoreContact(info) ==
    /\ kC' = UpdateContactInfo(kC, info)
    /\ UNCHANGED <<pipeVars, scoreVars, apiVars, extractVars, configVars, billingVars, bulkVars>>

NextContact == \E info \in ContactInfos : ScoreContact(info)

SpecContact == InitContact /\ [][NextContact]_vars

----------------------------------------------------------------------------
(* generate_job_config: validation of the AI's config *)

\* a category of the AI's config: its importance and the number of its
\* examples_of_evidence
CategoryKinds == [importance : {0, 1, 5, 6}, examples : {2, 3, 5, 6}]

\* the categories of a response: n categories, alike but for the last one
ConfigResponses ==
    {[i \in 1..n |-> IF i = n THEN last ELSE other] :
        n \in 0..MaxConfigCats, other \in CategoryKinds, last \in CategoryKinds}

\* schemas/job.py JobConfigSchema: categories is a List[JobCategory] of any
\* length, examples_of_evidence a List[str] of any length, importance an
\* int with ge=1, le=5
ValidJobConfig(cats) ==
    \A i \in 1..Len(cats) : cats[i].importance >= 1 /\ cats[i].importance <= 5

InitConfig ==
    /\ InitPipe
    /\ sT = <<>> /\ sG = <<>> /\ sOut = <<>>
    /\ xExt = "" /\ xDoc = <<>> /\ xOut = <<>>
    /\ kC = EmptyContact
    /\ gIn \in ConfigResponses
    /\ gOut = <<>>

\* ai_job_config.py lines 117-138: JobConfigSchema(**config_data) returns
\* the config, or raises and the attempt counts as failed
ValidateConfig ==
    /\ gOut = <<>>
    /\ gOut' = IF ValidJobConfig(gIn) THEN <<"returned">> ELSE <<"invalid">>
    /\ UNCHANGED gIn
    /\ UNCHANGED <<pipeVars, scoreVars, apiVars, extractVars, contactVars, billingVars, bulkVars>>

NextConfig == ValidateConfig

SpecConfig == InitConfig /\ [][NextConfig]_vars

----------------------------------------------------------------------------
(* The scoring formula as the specification states it *)

Abs(x) == IF x < 0 THEN -x ELSE x

\* the number of tenths nearest to num/den (the even one of two nearest)
NearestTenth(num, den) ==
    CHOOSE t \in ((10 * num) \div den)..((10 * num) \div den + 1) :
        \/ 2 * Abs(10 * num - t * den) < den
        \/ 2 * Abs(10 * num - t * den) = den /\ t % 2 = 0

\* the positions of g that grade the category name
ExactAt(g, name) == {i \in 1..Len(g) : g[i].key = name}
AnyCaseAt(g, name) == {i \in 1..Len(g) : Lower(g[i].key) = Lower(name)}
Least(S) == CHOOSE i \in S : \A k \in S : i <= k

GradeFor(g, name) ==
    LET at == IF ExactAt(g, name) # {} THEN ExactAt(g, name) ELSE AnyCaseAt(g, name)
    IN  IF at = {} \/ g[Least(at)].data = <<>> THEN 0 ELSE g[Least(at)].data[1]

RECURSIVE SumOver(_, _, _)
SumOver(S, f(_), acc) ==
    IF S = {} THEN acc
    ELSE LET i == CHOOSE i \in S : TRUE IN SumOver(S \ {i}, f, acc + f(i))

WeightedGrades(T, g, S) ==
    LET term(i) == GradeFor(g, T[i].name) * T[i].importance IN SumOver(S, term, 0)
TotalImportance(T) ==
    LET term(i) == T[i].importance IN SumOver(1..Len(T), term, 0)

Expected(T, g) ==
    IF TotalImportance(T) = 0 THEN 0
    ELSE NearestTenth(WeightedGrades(T, g, 1..Len(T)), TotalImportance(T))

\* G without the grades for names that are not in T
InTaxonomy(T, k) == \E i \in 1..Len(T) : Lower(T[i].name) = Lower(k)
Restrict(T, g) == LET keep(e) == InTaxonomy(T, e.key) IN SelectSeq(g, keep)

\* the categories of T the AI did not grade at all
Ungraded(T, g) == {i \in 1..Len(T) : AnyCaseAt(g, T[i].name) = {}}

ExampleTaxonomy == <<[name |-> "Backend", importance |-> 5],
                     [name |-> "Leadership", importance |-> 1]>>

\* C1: the stored match_score is round(sum(grade_i * importance_i) /
\* sum(importance_i), 1) over the categories of the taxonomy, with grade_i
\* looked up by exact name and else case-insensitively; it is 0 when the
\* total importance is 0; grades for names outside the taxonomy do not count.
C1_MatchScoreFormula ==
    sOut # <<>> =>
        /\ sOut[1] = Expected(sT, sG)
        /\ sOut[1] = Expected(sT, Restrict(sT, sG))
        /\ (sT = <<>> => sOut[1] = 0)

C1_Witness ==
    /\ sT = ExampleTaxonomy
    /\ sG = <<[key |-> "Other", data |-> <<40>>], [key |-> "backend", data |-> <<80>>]>>
    /\ sOut = <<667>>

\* C2: a category of the taxonomy without any entry in the grade map adds 0
\* to the numerator while its importance stays in the denominator; taxonomy
\* [Backend:5, Leadership:1] with grades {Backend: 80} gives 66.7.
C2_MissingCountsAsZero ==
    sOut # <<>> /\ Ungraded(sT, sG) # {} =>
        /\ sOut[1] = NearestTenth(WeightedGrades(sT, sG, (1..Len(sT)) \ Ungraded(sT, sG)),
                                  TotalImportance(sT))
        /\ (sT = ExampleTaxonomy /\ sG = <<[key |-> "Backend", data |-> <<80>>]>>
                => sOut[1] = 667)

C2_Witness ==
    /\ sT = ExampleTaxonomy
    /\ sG = <<[key |-> "Backend", data |-> <<80>>]>>
    /\ sOut = <<667>>

----------------------------------------------------------------------------
(* Pipeline properties *)

ScoreMsg(c) == [kind |-> "score", id |-> c, post |-> FALSE]
SlowWork == {"generate", "extract", "ai_call"}

\* the persisted status of the entity a task execution works on
StatusOf(t) == IF t.kind = "job" THEN jobs[t.id].status ELSE cands[t.id].status

\* worker w leaves the idle state in this step: a task execution starts
Starts(w) == wk[w].kind = "idle" /\ wk'[w].kind # "idle"
\* the task execution of worker w ends in this step
Ends(w) == wk[w].kind # "idle" /\ wk'[w].kind = "idle"

\* C3: a candidate in SCORED has exactly one evaluation row, in every state.
C3_ScoredHasOneEvaluation ==
    \A c \in CandIds :
        cands[c].status = "SCORED" => Cardinality(EvalsOf(evals, c)) = 1

\* C4: an evaluation row exists only for a candidate in SCORED.
C4_EvaluationOnlyIfScored ==
    \A c \in CandIds : EvalsOf(evals, c) # {} => cands[c].status = "SCORED"

JobMoves == {<<"ABSENT", "PENDING">>, <<"PENDING", "PROCESSING">>,
             <<"PROCESSING", "COMPLETED">>, <<"PROCESSING", "FAILED">>}
CandMoves == {<<"ABSENT", "UPLOADED">>, <<"UPLOADED", "PROCESSING">>,
              <<"PROCESSING", "PARSED">>, <<"PARSED", "PROCESSING">>,
              <<"PROCESSING", "SCORED">>, <<"UPLOADED", "FAILED">>,
              <<"PROCESSING", "FAILED">>, <<"PARSED", "FAILED">>}

\* C5: every change of a status follows the state machine: a job moves
\* PENDING -> PROCESSING -> COMPLETED or PROCESSING -> FAILED, a candidate
\* UPLOADED -> PROCESSING -> PARSED -> PROCESSING -> SCORED or into FAILED;
\* COMPLETED, SCORED and FAILED are never left.
C5_StatusMonotonic ==
    [][ /\ \A j \in JobIds : jobs'[j].status # jobs[j].status
                => <<jobs[j].status, jobs'[j].status>> \in JobMoves
        /\ \A c \in CandIds : cands'[c].status # cands[c].status
                => <<cands[c].status, cands'[c].status>> \in CandMoves ]_vars

\* C6: no two task executions work on the same job, or on the same candidate,
\* at the same time.
C6_OneInFlightPerEntity ==
    \A v, w \in Workers :
        v # w /\ wk[v].kind # "idle" /\ wk[w].kind # "idle"
            => ~(\E j \in JobIds : OnJob(v, j) /\ OnJob(w, j))
               /\ ~(\E c \in CandIds : OnCand(v, c) /\ OnCand(w, c))

\* C7: a task delivered when its entity is in a terminal status is a no-op:
\* no row changes, no slow work (generation, extraction, inference) starts
\* and nothing is enqueued.
C7_TerminalIsNoOp ==
    [][ \A w \in Workers :
          /\ wk'[w] # wk[w] /\ wk[w].kind = "idle"
          /\ \/ wk'[w].kind = "job" /\ jobs[wk'[w].id].status \in JobTerminal
             \/ wk'[w].kind \in {"parse", "score"} /\ cands[wk'[w].id].status \in CandTerminal
          => /\ jobs' = jobs /\ cands' = cands /\ evals' = evals
             /\ wk'[w].pc \notin SlowWork
             /\ \A m \in Msgs : queue'[m] <= queue[m] ]_vars

\* C8: a scoring run that follows an earlier successful run for the same
\* candidate, is not overlapped by another task for that candidate and gets
\* a complete AI result, leaves exactly one evaluation row, holding the
\* values of this run, and the candidate in SCORED.
C8_RescoreReplaces ==
    [][ \A w \in Workers :
          /\ wk[w].kind = "score" /\ wk[w].pc = "insert" /\ Ends(w)
          /\ wk[w].full /\ ~wk[w].ovl /\ runs[wk[w].id] >= 1
          => /\ EvalsOf(evals', wk[w].id) =
                    {[candidate_id |-> wk[w].id,
                      match_score |-> Expected(wk[w].cats, wk[w].resp),
                      category_scores |-> wk[w].resp]}
             /\ cands'[wk[w].id].status = "SCORED" ]_vars

C8_Witness ==
    \E c \in CandIds :
        /\ runs[c] = 2
        /\ cands[c].status = "SCORED"
        /\ Cardinality(EvalsOf(evals, c)) = 1
        /\ \A w \in Workers : wk[w].kind = "idle"

C11_ExtractionBeforeScoring ==
    \A c \in CandIds :
        (queue[ScoreMsg(c)] > 0 \/ \E w \in Workers : wk[w].kind = "score" /\ wk[w].id = c)
            => cands[c].resume_text = "resume text"

C11_Witness ==
    \E w \in Workers :
        /\ wk[w].kind = "score" /\ wk[w].pc = "ai_call"
        /\ cands[wk[w].id].resume_text = "resume text"
        /\ cands[wk[w].id].status = "PARSED"

----------------------------------------------------------------------------
(* Admission: quota, record and counter *)

\* the step of API process r runs the checks of upload_resume
Checks(r) == req[r].pc = "check" /\ req'[r].pc # "check"

\* candidate rows that exist
Persisted(table) == {c \in CandIds : table[c].status # "ABSENT"}

C13_OneRowOneIncrementOneTask ==
    [][ \A r \in Reqs :
          /\ (req[r].pc = "create" /\ req'[r].pc = "reload"
                => /\ Cardinality(Persisted(cands')) = Cardinality(Persisted(cands)) + 1
                   /\ cands'[req'[r].cand].status = "UPLOADED"
                   /\ used' = used /\ queue' = queue)
          /\ (req[r].pc = "count" /\ req'[r].pc = "enqueue"
                => /\ used' = used + 1
                   /\ req[r].cand \in Persisted(cands)
                   /\ cands' = cands /\ queue' = queue)
          /\ (req[r].pc = "enqueue" /\ req'[r].pc = "idle"
                => /\ queue' = [queue EXCEPT ![[kind |-> "parse", id |-> req[r].cand,
                                                post |-> FALSE]] = @ + 1]
                   /\ used' = used /\ cands' = cands) ]_vars

\* C14 as stated: in every state the usage counter equals the number of
\* candidate rows: no row without its increment, no increment without its row.
C14_RowAndCounterTogether ==
    used = Cardinality(Persisted(cands))

----------------------------------------------------------------------------
(* Config generation: retries, backoff, failure *)

\* the step is one of worker w's own steps in a run of the job task
OwnJobStep(w) ==
    \/ Starts(w) /\ wk'[w].kind = "job"
    \/ wk[w].kind = "job" /\ (Ends(w) \/ wk'[w].att # wk[w].att)

\* what the Job's error_message has to say after a last attempt that failed
\* with the given failure
LastErrorText(failure) ==
    CASE failure = "badjson" -> "Invalid JSON after 3 attempts: badjson"
      [] failure = "invalid" -> "Failed after 3 attempts: invalid"
      [] failure = "timeout" -> "Failed after 3 attempts: timeout"

\* the job a step of worker w belongs to
JobAt(w) == IF wk[w].kind = "job" THEN wk[w].id ELSE wk'[w].id

\* C15: when the last attempt of config generation fails, the task leaves
\* the job in FAILED with the error of that last attempt as error_message;
\* no step of a task run other than a successful return writes job_config,
\* so it keeps the value it had when the task started.
C15_FailureKeepsConfig ==
    [][ \A w \in Workers :
          /\ \A f \in GenFailures :
                JobFail(w, f)
                  => /\ Ends(w)
                     /\ jobs'[wk[w].id].status = "FAILED"
                     /\ jobs'[wk[w].id].error_message = LastErrorText(f)
          /\ (OwnJobStep(w) /\ ~(\E cfg \in Configs : JobSucceed(w, cfg))
                => jobs'[JobAt(w)].job_config = jobs[JobAt(w)].job_config) ]_vars

C15_Witness ==
    \E j \in JobIds :
        /\ jobs[j].status = "FAILED"
        /\ jobs[j].error_message = "Invalid JSON after 3 attempts: badjson"
        /\ jobs[j].job_config = <<>>
        /\ \A w \in Workers : wk[w].kind = "idle"

\* C16: every attempt of generate_job_config is one call of the Inference
\* Client, and a run makes at most max_retries = 3 of them: an attempt either
\* succeeds, which ends the run with the job COMPLETED and no further call,
\* or fails before the third attempt, which is followed by the next attempt
\* whatever the failure was, or fails as the third attempt (or by an
\* unexpected exception), which ends the run with the job FAILED.
C16_AtMostThreeAttempts ==
    [][ \A w \in Workers :
          /\ (wk[w].pc = "generate" /\ (Ends(w) \/ wk'[w].att # wk[w].att)
                => /\ wk[w].att + 1 <= max_retries
                   /\ \/ Ends(w) /\ jobs'[wk[w].id].status = "COMPLETED"
                      \/ /\ ~Ends(w) /\ wk'[w].att = wk[w].att + 1
                         /\ wk[w].att + 1 < max_retries /\ jobs' = jobs
                      \/ /\ Ends(w) /\ jobs'[wk[w].id].status = "FAILED"
                         /\ \/ wk[w].att + 1 = max_retries
                            \/ jobs'[wk[w].id].error_message = "Unexpected error")
          /\ \A f \in GenFailures :
                /\ JobRetry(w, f) => wk'[w].pc = "generate" /\ wk[w].att + 1 < max_retries
                /\ JobFail(w, f) => wk[w].att + 1 = max_retries ]_vars

C16_Witness ==
    \E w \in Workers :
        /\ wk[w].pc = "generate" /\ wk[w].att = max_retries - 1
        /\ wk[w].waits = <<1, 2>>
        /\ jobs[wk[w].id].status = "PROCESSING"

\* C17 as stated: a run of config generation that exhausts its retries has
\* waited 1 s, 2 s and 4 s, in this order.
C17_BackoffOneTwoFour ==
    [][ \A w \in Workers, f \in GenFailures :
          JobFail(w, f) => wk[w].waits = <<1, 2, 4>> ]_vars

\* C18 as stated: a job in PROCESSING has no error message.
C18_ProcessingHasNoError ==
    \A j \in JobIds : jobs[j].status = "PROCESSING" => jobs[j].error_message = ""

----------------------------------------------------------------------------
(* Killed workers and unexpected failures *)

\* nothing is queued for the pipeline and no worker is busy
Quiescent ==
    /\ \A m \in JobMsgs \cup CandMsgs : queue[m] = 0
    /\ \A w \in Workers : wk[w].kind = "idle"

\* C19 as stated, in the form a finite run refutes: when no task is queued
\* or running any more, every submitted job is COMPLETED or FAILED and every
\* uploaded candidate is SCORED or FAILED.
C19_NoTaskLost ==
    Quiescent =>
        /\ \A j \in JobIds : jobs[j].status \in {"ABSENT"} \cup JobTerminal
        /\ \A c \in CandIds : cands[c].status \in {"ABSENT"} \cup CandTerminal

\* the status and the error message of the entity of task t after the step
StatusAfter(t) == IF t.kind = "job" THEN jobs'[t.id].status ELSE cands'[t.id].status
ErrorAfter(t) ==
    IF t.kind = "job" THEN jobs'[t.id].error_message ELSE cands'[t.id].error_message

\* C20 as stated: a task that ends by an unexpected exception or at the time
\* limit leaves its entity in FAILED with a non-empty error message, and no
\* task that ends leaves its entity in PROCESSING.
C20_EndedTaskNeverProcessing ==
    [][ \A w \in Workers :
          /\ (Kill(w) \/ JobUnexpected(w) \/ ParseFinish(w, "corrupt") \/ ScoreCallFail(w, "timeout")
                => StatusAfter(wk[w]) = "FAILED" /\ ErrorAfter(wk[w]) # "")
          /\ (Ends(w) => StatusAfter(wk[w]) # "PROCESSING") ]_vars

----------------------------------------------------------------------------
(* Results and failures of the stages *)

\* C25: a run of parse_resume_task ends with the candidate FAILED when the
\* source file cannot be read, when the file is a .doc, when the extension
\* is unknown and when a PDF or DOCX yields no text; each of the four cases
\* records a message of its own.
C25_ParseFailuresToldApart ==
    [][ \A w \in Workers, file \in Files :
          ParseFinish(w, file) =>
            LET c == wk[w].id
                ext == cands[c].ext
                failedWith(msg) == /\ cands'[c].status = "FAILED"
                                   /\ cands'[c].error_message = msg
            IN  /\ file = "missing" => failedWith("File not found")
                /\ file # "missing" /\ ext = ".doc"
                     => failedWith("Legacy .doc format is not supported")
                /\ file # "missing" /\ ext \notin {".pdf", ".docx", ".doc"}
                     => failedWith("Unsupported file format")
                /\ file = "blank" /\ ext \in {".pdf", ".docx"}
                     => failedWith("No text could be extracted") ]_vars

C25_Witness ==
    \E c \in CandIds :
        /\ cands[c].ext = ".doc"
        /\ cands[c].status = "FAILED"
        /\ cands[c].error_message = "Legacy .doc format is not supported"

\* C28 as stated: a PARSED candidate has a resume text and a COMPLETED job a
\* config, in every state; and every step that persists a result (a resume
\* text, a config, a new evaluation, the removal of an evaluation) is the
\* step that persists the final status of the same run.
C28_ResultAndStatusTogether ==
    [][ /\ \A c \in CandIds :
             /\ cands'[c].status = "PARSED" => cands'[c].resume_text # ""
             /\ cands'[c].resume_text # cands[c].resume_text
                  => /\ cands'[c].status = "PARSED"
                     /\ \E w \in Workers : wk[w].kind = "parse" /\ wk[w].id = c /\ Ends(w)
             /\ EvalsOf(evals', c) # EvalsOf(evals, c)
                  => /\ cands'[c].status = "SCORED"
                     /\ \E w \in Workers : wk[w].kind = "score" /\ wk[w].id = c /\ Ends(w)
        /\ \A j \in JobIds :
             /\ jobs'[j].status = "COMPLETED" => jobs'[j].job_config # <<>>
             /\ jobs'[j].job_config # jobs[j].job_config
                  => /\ jobs'[j].status = "COMPLETED"
                     /\ \E w \in Workers : /\ wk[w].kind = "job" /\ wk[w].id = j
                                           /\ wk[w].pc = "generate" /\ wk'[w].pc # "generate" ]_vars

\* C29: the step by which config generation succeeds leaves the job
\* COMPLETED, its job_config the validated config with job_id set to the id
\* of the job, and its error_message empty.
C29_SuccessStoresConfig ==
    [][ \A w \in Workers, cfg \in Configs :
          JobSucceed(w, cfg) =>
            LET j == wk[w].id
            IN  /\ jobs'[j].status = "COMPLETED"
                /\ jobs'[j].job_config = <<[job_id |-> j, categories |-> cfg]>>
                /\ jobs'[j].error_message = "" ]_vars

\* a job that failed once and was completed by a later run of the task
C29_Witness ==
    \E j \in JobIds :
        /\ jobs[j].status = "COMPLETED"
        /\ jobs[j].job_config # <<>>
        /\ jobs[j].job_config[1].job_id = j
        /\ jobs[j].error_message = ""
        /\ dups >= 1
        /\ \A w \in Workers : wk[w].kind = "idle"

\* C21 as stated: a scoring run that ends FAILED because the Inference
\* Client was unreachable or timed out has called it at least twice and at
\* most max_retries times; a run that ends FAILED because the content was
\* not JSON has called it exactly once.
C21_ScoreRetriesTransientOnly ==
    [][ \A w \in Workers :
          /\ ScoreCallFail(w, "timeout")
               => wk[w].att + 1 >= 2 /\ wk[w].att + 1 <= max_retries
          /\ ScoreCallFail(w, "badjson") => wk[w].att + 1 = 1 ]_vars

\* C22 as stated: a parse run that ends FAILED because the source file could
\* not be read has tried to read it at least twice; a run that ends FAILED
\* on an unsupported format or on empty text has tried once.
C22_ParseRetriesIOOnly ==
    [][ \A w \in Workers, file \in Files :
          ParseFinish(w, file) =>
            LET c == wk[w].id
                msg == cands'[c].error_message
            IN  /\ msg = "File not found" => wk[w].att + 1 >= 2
                /\ msg \in {"Legacy .doc format is not supported", "Unsupported file format",
                            "No text could be extracted"} => wk[w].att + 1 = 1 ]_vars

----------------------------------------------------------------------------
(* Range and order of the match score *)

\* C26 as stated: the stored match_score (in tenths) lies in [0, 100],
\* whatever grades the AI returned.
C26_MatchScoreInRange ==
    sOut # <<>> => sOut[1] >= 0 /\ sOut[1] <= 1000

\* the orderings of a sequence
PermsOf(q) ==
    {[i \in 1..Len(q) |-> q[f[i]]] :
        f \in {h \in [1..Len(q) -> 1..Len(q)] : \A i, j \in 1..Len(q) : i # j => h[i] # h[j]}}

\* C27 as stated: the stored match_score is the score of every reordering
\* of the category list and of the keys of the grade map.
C27_OrderIndependent ==
    sOut # <<>> =>
        \A t \in PermsOf(sT), g \in PermsOf(sG) : FinalMatchScore(t, g) = sOut[1]

----------------------------------------------------------------------------
(* The caps of the text extraction *)

\* the document is longer than a cap allows: more than 6 pages, or two
\* pages that together hold more than 25,000 characters
ExceedsCap(doc) ==
    \/ Len(doc) > MAX_PAGES
    \/ \E i, j \in 1..Len(doc) : i # j /\ doc[i].chars + doc[j].chars > MAX_CHARS

\* some page of the document holds text
HoldsText(doc) == \E i \in 1..Len(doc) : doc[i].ink

\* the characters that precede page i in the extracted text (sep: what the
\* extraction puts after each page that has text)
RECURSIVE CharsBefore(_, _, _)
CharsBefore(doc, i, sep) ==
    IF i <= 1 THEN 0
    ELSE CharsBefore(doc, i - 1, sep)
           + (IF doc[i - 1].chars > 0 THEN doc[i - 1].chars + sep ELSE 0)

\* some page that holds text begins within the caps of its format
KeptHoldsText(ext, doc) ==
    \E i \in 1..Len(doc) :
        /\ doc[i].ink
        /\ ext = ".pdf" => i <= MAX_PAGES
        /\ CharsBefore(doc, i, IF ext = ".pdf" THEN 1 ELSE 0) < MAX_CHARS

\* C24 as stated: a stored resume_text has at most 25,000 characters, all of
\* them from the first 6 pages, for a PDF and for a DOCX; a document beyond
\* a cap that holds text ends PARSED.
C24_CappedPagesAndChars ==
    xOut # <<>> =>
        /\ xOut[1].status = "PARSED"
             => xOut[1].chars <= MAX_CHARS /\ xOut[1].last <= MAX_PAGES
        /\ ExceedsCap(xDoc) /\ HoldsText(xDoc) => xOut[1].status = "PARSED"

\* C24, amended: a stored resume_text has at most 25,000 characters, for a
\* PDF all of them from the first 6 pages (a DOCX has no page cap); a
\* document beyond a cap ends PARSED when the part kept holds text.
C24_CappedCharsPdfPages ==
    xOut # <<>> =>
        /\ xOut[1].status = "PARSED"
             => /\ xOut[1].chars <= MAX_CHARS
                /\ xExt = ".pdf" => xOut[1].last <= MAX_PAGES
        /\ ExceedsCap(xDoc) /\ KeptHoldsText(xExt, xDoc) => xOut[1].status = "PARSED"

\* a PDF beyond both caps, stored cut to 25,000 characters
C24_Witness ==
    /\ xOut # <<>>
    /\ xExt = ".pdf"
    /\ Len(xDoc) > MAX_PAGES
    /\ xDoc[MaxDocPages].ink
    /\ xOut[1].status = "PARSED"
    /\ xOut[1].chars = MAX_CHARS

----------------------------------------------------------------------------
(* Contact columns *)

\* C23 as stated: a contact column that holds a value before a scoring run
\* holds the same value after it, for every AI response.
C23_FirstWriterWins ==
    [][ /\ kC.first_name # "" => kC'.first_name = kC.first_name
        /\ kC.email # "" => kC'.email = kC.email
        /\ kC.linkedin_url # "" => kC'.linkedin_url = kC.linkedin_url
        /\ kC.other_urls # <<>> => kC'.other_urls = kC.other_urls ]_vars

----------------------------------------------------------------------------
(* Submission *)

\* the entity a job or parse message is about is in its initial status
InitialStatus(table, m) ==
    IF m.kind = "job" THEN table[1][m.id].status = "PENDING"
    ELSE table[2][m.id].status = "UPLOADED"

\* C30: when the task of a submitted entity is enqueued the entity is already
\* stored, a job as PENDING and a candidate as UPLOADED; it leaves that
\* status only in the step by which a worker starts a task on it; and every
\* job or parse task waiting in the broker has its entity in the database.
C30_PersistedBeforeEnqueued ==
    [][ /\ \A m \in Msgs :
             m.kind \in {"job", "parse"} /\ queue'[m] > queue[m]
                => InitialStatus(<<jobs, cands>>, m)
        /\ \A j \in JobIds :
             jobs[j].status = "PENDING" /\ jobs'[j].status # "PENDING"
                => \E w \in Workers : /\ wk[w].kind = "idle"
                                      /\ wk'[w].kind = "job" /\ wk'[w].id = j
        /\ \A c \in CandIds :
             cands[c].status = "UPLOADED" /\ cands'[c].status # "UPLOADED"
                => \E w \in Workers : /\ wk[w].kind = "idle"
                                      /\ wk'[w].kind = "parse" /\ wk'[w].id = c
        /\ \A m \in Msgs :
             queue'[m] > 0 =>
                /\ m.kind = "job" => jobs'[m.id].status # "ABSENT"
                /\ m.kind = "parse" => cands'[m.id].status # "ABSENT" ]_vars

\* both submissions are done, each task waits for a worker and each entity
\* is in its initial status
C30_Witness ==
    /\ \E m \in Msgs : m.kind = "job" /\ queue[m] > 0 /\ jobs[m.id].status = "PENDING"
    /\ \E m \in Msgs : m.kind = "parse" /\ queue[m] > 0 /\ cands[m.id].status = "UPLOADED"

----------------------------------------------------------------------------
(* Validation of submissions *)

\* C31 as stated: an upload whose file name does not end in .pdf, .doc or
\* .docx, and a job with an empty title or a description under 10
\* characters, are answered with an error and leave rows, files, the usage
\* counter and the broker as they were.
C31_InvalidSubmissionRejected ==
    [][ \A r \in SubmitReqs :
          /\ \A j \in JobIds, ext \in Exts, ctypeOk \in BOOLEAN :
                UploadCheck(r, j, ext, ctypeOk) /\ ext \notin {".pdf", ".doc", ".docx"}
                   => /\ req'[r].pc = "idle" /\ req'[r].resp \in {400, 402, 404}
                      /\ cands' = cands /\ files' = files
                      /\ used' = used /\ queue' = queue
          /\ \A j \in JobIds, post \in BOOLEAN, t \in TitleLens, d \in DescriptionLens :
                CreateJobRow(r, j, post, t, d) /\ (t = 0 \/ d < 10)
                   => /\ req'[r].pc = "idle" /\ req'[r].resp = 422
                      /\ jobs' = jobs /\ queue' = queue ]_vars

----------------------------------------------------------------------------
(* The downstream publish task *)

\* the LinkedIn task of a job
PublishMsg(j) == [kind |-> "linkedin", id |-> j, post |-> TRUE]

----------------------------------------------------------------------------
(* The bounds of a generated config *)

\* C33 as stated: a config that generate_job_config returns has 4 to 8
\* categories, each with an importance in 1..5 and 3 to 5 examples.
C33_ConfigWithinBounds ==
    gOut = <<"returned">> =>
        /\ Len(gIn) >= 4 /\ Len(gIn) <= 8
        /\ \A i \in 1..Len(gIn) :
              /\ gIn[i].importance \in 1..5
              /\ gIn[i].examples \in 3..5

\* C34: a payment-succeeded event for a known subscription leaves the
\* month's counter at zero and the status ACTIVE, so that the quota check
\* of an upload passes on the row as the event left it; an event that
\* names no subscription or an unknown one changes neither.
C34_PaymentRenewsQuota ==
    [][\A inv \in Invoices :
        PaymentSucceeded(inv) =>
            IF inv = TenantSubscription
            THEN /\ used' = 0
                 /\ subStatus' = "ACTIVE"
                 /\ IsActive(subStatus') /\ CanUploadSeen(used')
            ELSE used' = used /\ subStatus' = subStatus]_vars

\* an upload was answered 402 after a counted candidate had used up the
\* month, and the event has reset the counter since
C34_Witness ==
    /\ req["r1"].resp = 402 /\ req["r1"].pc = "idle"
    /\ queue[[kind |-> "parse", id |-> 1, post |-> FALSE]] > 0
    /\ used = 0
    /\ subStatus = "ACTIVE"

\* C35: within one bulk request with no other upload beside it, the
\* candidates created never exceed the slots that were free at the start
\* (the whole limit: the month starts unused), the counter has risen by
\* exactly processed_count, and between two passes of the loop every
\* created candidate has exactly one parse task.
C35_BulkWithinSlots ==
    /\ Cardinality({c \in CandIds : cands[c].status # "ABSENT"}) <= MonthlyLimit
    /\ used = bulk.processed_count
    /\ \A c \in CandIds :
        cands[c].status # "ABSENT" => queue[[kind |-> "parse", id |-> c, post |-> FALSE]] = 1

\* C36: however the upload requests of one tenant interleave, the usage
\* counter never exceeds the monthly limit and no more candidates are
\* admitted than the limit allows.
C36_NeverOverLimit ==
    /\ used <= MonthlyLimit
    /\ Cardinality(Persisted(cands)) <= MonthlyLimit

\* C37: an upload_resume request that ends well has its candidate row and
\* one parse task for it enqueued by its last step; a request that ends
\* with an error after its file was stored leaves no candidate row of its
\* own, has its stored file removed and leaves the usage counter alone.
C37_NoHalfAdmittedCandidate ==
    [][ \A r \in Reqs :
          /\ (req[r].pc = "enqueue" /\ req'[r].pc = "idle"
                => /\ cands'[req[r].cand].status # "ABSENT"
                   /\ queue'[[kind |-> "parse", id |-> req[r].cand, post |-> FALSE]] > 0)
          /\ (req[r].pc \in {"create", "reload", "count"} /\ req'[r] = NoRequest(500)
                => /\ req[r].cand \in CandIds => cands'[req[r].cand].status = "ABSENT"
                   /\ files' = files - 1
                   /\ used' = used) ]_vars

\* C38 as stated: whenever a scoring run stores its evaluation and marks
\* the Candidate SCORED, the category list it loaded from the Job at its
\* start was not empty: no Candidate is scored against a missing config.
C38_ScoredAgainstTaxonomy ==
    [][ \A w \in Workers :
          ScoreInsert(w) /\ cands'[wk[w].id].status = "SCORED" /\ evals' # evals
              => wk[w].cats # <<>> ]_vars

\* C38, amended: a scoring run scores against the category list its Job
\* held when the run loaded it, whatever the Job's status; when that list
\* is empty (no config yet, or none after a failure) the Candidate is still
\* marked SCORED and the evaluation stored has a match_score of 0.
C38_ScoredAgainstLoadedList ==
    [][ \A w \in Workers :
          ScoreInsert(w) /\ cands'[wk[w].id].status = "SCORED" /\ evals' # evals
              => \E e \in evals' \ evals :
                    /\ e.candidate_id = wk[w].id
                    /\ IF wk[w].cats = <<>>
                       THEN e.match_score = 0
                       ELSE e.match_score = FinalMatchScore(wk[w].cats, wk[w].resp) ]_vars

\* a Candidate of a Job that is still pending, with no config, is SCORED
\* with a match_score of 0
C38_Witness ==
    /\ jobs[1].status = "PENDING" /\ jobs[1].job_config = <<>>
    /\ \E c \in CandIds :
        /\ cands[c].status = "SCORED"
        /\ \E e \in evals : e.candidate_id = c /\ e.match_score = 0

\* C39: a scoring run that fails changes nothing of its Candidate but
\* status and error_message, and removes no Evaluation: neither the step
\* that records the failure nor, in a run whose AI result lacks summary,
\* pros or cons and is therefore bound to fail, the step before it.
C39_FailedRunKeepsTheRest ==
    [][ \A w \in Workers :
          LET c == wk[w].id
          IN  /\ (wk[w].kind = "score" /\ wk[w].pc = "ai_call"
                    /\ wk'[w].pc = "insert" /\ ~wk'[w].full
                      => evals' = evals /\ cands' = cands)
              /\ ((\E f \in ScoreFailures : ScoreCallFail(w, f))
                    \/ (ScoreInsert(w) /\ ~wk[w].full)
                      => /\ evals' = evals
                         /\ [cands' EXCEPT ![c].status = cands[c].status,
                                            ![c].error_message = cands[c].error_message]
                              = cands) ]_vars

====
